---- MODULE Spec2Model ----
(***************************************************************************)
(* Model of the channel-backed ThreadPool of src/lib.rs: a pool thread     *)
(* that constructs the pool, submits jobs with execute and drops the pool, *)
(* and the worker threads spawned by Worker::new, which share one          *)
(* mpsc::Receiver behind an Arc<Mutex<..>>.                                *)
(***************************************************************************)
EXTENDS Integers, Sequences, FiniteSets, TLC

\* Largest size passed to ThreadPool::new, and the number of jobs a
\* behaviour may submit.
MaxSize == 2
MaxJobs == 3

VARIABLES
    size,          \* the argument of ThreadPool::new
    workers,       \* ThreadPool.workers: Vec<Worker>, each [id, thread]
    queue,         \* the messages in the mpsc channel, oldest first
    lockHolders,   \* the worker threads holding the MutexGuard of the receiver
    poisoned,      \* the receiver's Mutex is poisoned
    wpc,           \* position of each worker thread in its loop
    message,       \* each worker thread's local `message`
    poolpc,        \* position of the thread that owns the pool
    idx,           \* index of the running `for` loop of drop
    submitted,     \* number of jobs execute has sent into the channel
    execLog,       \* history: for each job, the workers that invoked it, in order
    completed,     \* history: the jobs whose invocation returned
    termsRecv,     \* history: Terminate messages each worker thread received
    sentWhileBusy  \* history: an execute returned while every worker ran a job

vars == <<size, workers, queue, lockHolders, poisoned, wpc, message, poolpc,
          idx, submitted, execLog, completed, termsRecv, sentWhileBusy>>

----------------------------------------------------------------------------
\* enum Message { NewJob(Job), Terminate }; a Job is named by the number of
\* the execute call that submitted it.
NewJob(j) == [type |-> "NewJob", job |-> j]

Terminate == [type |-> "Terminate", job |-> 0]

NoMessage == [type |-> "None", job |-> 0]

\* Worker { id, thread: Some(thread) } as built by Worker::new.
WorkerNewOffByOne(id) == [id |-> id + 1, thread |-> "Some"]
WorkerNew(id) == [id |-> id, thread |-> "Some"]

\* The Vec built by the loop `for id in 0..size` of ThreadPool::new.
RECURSIVE PushWorkers(_, _)
PushWorkers(id, n) ==
    IF id >= n THEN <<>> ELSE <<WorkerNew(id)>> \o PushWorkers(id + 1, n)

ThreadPoolNew(n) == PushWorkers(0, n)

WorkerIds == {workers[i].id : i \in 1..Len(workers)}

\* A spawned thread that has neither left its loop nor panicked.
ThreadRunning(w) == wpc[w] \notin {"exited", "panicked"}

\* The Receiver lives as long as one Arc clone does; ThreadPool::new drops
\* its own clone on return, each worker thread drops its clone when it ends.
ReceiverKeptByPool == TRUE
ReceiverAlive == \E w \in DOMAIN wpc : ThreadRunning(w)

\* The Sender is a field of the pool: it is dropped once drop has returned
\* or unwound.
SenderAlive == poolpc \notin {"done", "sendpanic", "joinpanic"}

\* mpsc::channel() is unbounded: a send never waits for room.
ChanCanSendBounded(q) == Len(q) < 1
ChanCanSend(q) == TRUE

\* Sender::send appends at the tail of the channel.
ChanSendFront(q, m) == <<m>> \o q
ChanSend(q, m) == Append(q, m)

\* Receiver::recv takes the oldest message and removes it.
ChanRecvKeep(q) == q
ChanRecvRest(q) == Tail(q)

\* The MutexGuard is a temporary of the `let message = ...` statement: it is
\* dropped at the end of that statement.
GuardKept(w) == lockHolders
GuardDropped(w) == lockHolders \ {w}

\* `for _ in &self.workers`: one Terminate per worker.
TerminateCountShort == Len(workers) - 1
TerminateCountExtra == Len(workers) + 1
TerminateCount == Len(workers)

\* JoinHandle::join returns once the thread has finished.
JoinReturnsEarly(w) == TRUE
JoinReturns(w) == ~ThreadRunning(w)

\* `break` in the Terminate arm leaves the loop: the thread ends.
AfterTerminateLoops == "lock"
AfterTerminate == "exited"

\* `for worker in &mut self.workers` visits the workers in index order; the
\* i-th iteration (from 0) visits element i of the Vec.
JoinIndexReversed(i) == Len(workers) - i
JoinIndex(i) == i + 1

\* Option::take leaves None in the worker.
HandleKept == "Some"
HandleAfterTake == "None"

\* Mutex::lock blocks until no other thread holds the guard.
MutexFreeAlways == TRUE
MutexFree == lockHolders = {}

AllBusy == workers # <<>> /\ \A w \in WorkerIds : wpc[w] = "job"

----------------------------------------------------------------------------
Init ==
    /\ size \in 0..MaxSize
    /\ workers = ThreadPoolNew(size)
    /\ queue = <<>>
    /\ lockHolders = {}
    /\ poisoned = FALSE
    /\ wpc = [w \in {workers[i].id : i \in 1..Len(workers)} |-> "lock"]
    /\ message = [w \in {workers[i].id : i \in 1..Len(workers)} |-> NoMessage]
    /\ poolpc = "alive"
    /\ idx = 0
    /\ submitted = 0
    /\ execLog = [j \in 1..MaxJobs |-> <<>>]
    /\ completed = {}
    /\ termsRecv = [w \in {workers[i].id : i \in 1..Len(workers)} |-> 0]
    /\ sentWhileBusy = FALSE

\* ---- the pool thread ----

\* execute: the send succeeds and the job is in the channel.
Execute ==
    /\ poolpc = "alive"
    /\ submitted < MaxJobs
    /\ ReceiverAlive
    /\ ChanCanSend(queue)
    /\ submitted' = submitted + 1
    /\ queue' = ChanSend(queue, NewJob(submitted + 1))
    /\ sentWhileBusy' = (sentWhileBusy \/ AllBusy)
    /\ UNCHANGED <<size, workers, lockHolders, poisoned, wpc, message, poolpc,
                   idx, execLog, completed, termsRecv>>

\* execute: the send returns Err and expect panics; the caller unwinds.
ExecutePanic ==
    /\ poolpc = "alive"
    /\ ~ReceiverAlive
    /\ poolpc' = "unwinding"
    /\ UNCHANGED <<size, workers, queue, lockHolders, poisoned, wpc, message,
                   idx, submitted, execLog, completed, termsRecv,
                   sentWhileBusy>>

\* The pool goes out of scope (or the caller unwinds): drop starts.
DropBegin ==
    /\ poolpc \in {"alive", "unwinding"}
    /\ poolpc' = "sending"
    /\ idx' = 0
    /\ UNCHANGED <<size, workers, queue, lockHolders, poisoned, wpc, message,
                   submitted, execLog, completed, termsRecv, sentWhileBusy>>

\* One iteration of the first loop of drop, the send succeeding.
DropSend ==
    /\ poolpc = "sending"
    /\ idx < TerminateCount
    /\ ReceiverAlive
    /\ ChanCanSend(queue)
    /\ queue' = ChanSend(queue, Terminate)
    /\ idx' = idx + 1
    /\ UNCHANGED <<size, workers, lockHolders, poisoned, wpc, message, poolpc,
                   submitted, execLog, completed, termsRecv, sentWhileBusy>>

\* One iteration of the first loop of drop, the send failing: expect panics.
DropSendPanic ==
    /\ poolpc = "sending"
    /\ idx < TerminateCount
    /\ ~ReceiverAlive
    /\ poolpc' = "sendpanic"
    /\ UNCHANGED <<size, workers, queue, lockHolders, poisoned, wpc, message,
                   idx, submitted, execLog, completed, termsRecv, sentWhileBusy>>

\* The first loop of drop ends; the second starts.
DropSendDone ==
    /\ poolpc = "sending"
    /\ idx >= TerminateCount
    /\ poolpc' = "joining"
    /\ idx' = 0
    /\ UNCHANGED <<size, workers, queue, lockHolders, poisoned, wpc, message,
                   submitted, execLog, completed, termsRecv, sentWhileBusy>>

\* worker.thread.take(): the handle is moved out of the worker.
DropTake ==
    /\ poolpc = "joining"
    /\ idx < Len(workers)
    /\ IF workers[JoinIndex(idx)].thread = "Some"
       THEN /\ workers' = [workers EXCEPT
                   ![JoinIndex(idx)].thread = HandleAfterTake]
            /\ poolpc' = "joinwait"
            /\ idx' = idx
       ELSE /\ idx' = idx + 1
            /\ UNCHANGED <<workers, poolpc>>
    /\ UNCHANGED <<size, queue, lockHolders, poisoned, wpc, message, submitted,
                   execLog, completed, termsRecv, sentWhileBusy>>

\* thread.join() returns Ok: the thread left its loop.
DropJoin ==
    /\ poolpc = "joinwait"
    /\ JoinReturns(workers[JoinIndex(idx)].id)
    /\ wpc[workers[JoinIndex(idx)].id] # "panicked"
    /\ poolpc' = "joining"
    /\ idx' = idx + 1
    /\ UNCHANGED <<size, workers, queue, lockHolders, poisoned, wpc, message,
                   submitted, execLog, completed, termsRecv, sentWhileBusy>>

\* thread.join() returns Err: the thread panicked; expect panics.
DropJoinPanic ==
    /\ poolpc = "joinwait"
    /\ JoinReturns(workers[JoinIndex(idx)].id)
    /\ wpc[workers[JoinIndex(idx)].id] = "panicked"
    /\ poolpc' = "joinpanic"
    /\ UNCHANGED <<size, workers, queue, lockHolders, poisoned, wpc, message,
                   idx, submitted, execLog, completed, termsRecv, sentWhileBusy>>

\* The second loop of drop ends and drop returns.
DropDone ==
    /\ poolpc = "joining"
    /\ idx >= Len(workers)
    /\ poolpc' = "done"
    /\ UNCHANGED <<size, workers, queue, lockHolders, poisoned, wpc, message,
                   idx, submitted, execLog, completed, termsRecv, sentWhileBusy>>

\* ---- the worker threads ----

\* receiver.lock().unwrap(): take the mutex once it is free; a poisoned
\* mutex makes unwrap panic.
WorkerLock(w) ==
    /\ wpc[w] = "lock"
    /\ MutexFree
    /\ IF poisoned
       THEN /\ wpc' = [wpc EXCEPT ![w] = "panicked"]
            /\ UNCHANGED lockHolders
       ELSE /\ wpc' = [wpc EXCEPT ![w] = "recv"]
            /\ lockHolders' = lockHolders \cup {w}
    /\ UNCHANGED <<size, workers, queue, poisoned, message, poolpc, idx, submitted,
                   execLog, completed, termsRecv, sentWhileBusy>>

\* .recv().unwrap() under the guard: wait for a message and take it; with
\* the channel empty and the Sender gone recv returns Err and unwrap panics
\* with the guard held, which poisons the mutex.
WorkerRecv(w) ==
    /\ wpc[w] = "recv"
    /\ queue # <<>> \/ ~SenderAlive
    /\ IF queue # <<>>
       THEN /\ message' = [message EXCEPT ![w] = Head(queue)]
            /\ queue' = ChanRecvRest(queue)
            /\ termsRecv' = [termsRecv EXCEPT
                   ![w] = @ + (IF Head(queue).type = "Terminate" THEN 1 ELSE 0)]
            /\ wpc' = [wpc EXCEPT ![w] = "unlock"]
            /\ UNCHANGED <<lockHolders, poisoned>>
       ELSE /\ wpc' = [wpc EXCEPT ![w] = "panicked"]
            /\ lockHolders' = lockHolders \ {w}
            /\ poisoned' = TRUE
            /\ UNCHANGED <<message, queue, termsRecv>>
    /\ UNCHANGED <<size, workers, poolpc, idx, submitted, execLog, completed,
                   sentWhileBusy>>

\* End of the `let message = ...` statement: the temporaries are dropped.
WorkerUnlock(w) ==
    /\ wpc[w] = "unlock"
    /\ lockHolders' = GuardDropped(w)
    /\ wpc' = [wpc EXCEPT ![w] = "match"]
    /\ UNCHANGED <<size, workers, queue, poisoned, message, poolpc, idx, submitted,
                   execLog, completed, termsRecv, sentWhileBusy>>

\* match arm Message::NewJob(job): the job is invoked.
WorkerNewJob(w) ==
    /\ wpc[w] = "match"
    /\ message[w].type = "NewJob"
    /\ wpc' = [wpc EXCEPT ![w] = "job"]
    /\ execLog' = [execLog EXCEPT ![message[w].job] = Append(@, w)]
    /\ UNCHANGED <<size, workers, queue, lockHolders, poisoned, message, poolpc,
                   idx, submitted, completed, termsRecv, sentWhileBusy>>

\* job() returns; the loop goes round.
JobReturn(w) ==
    /\ wpc[w] = "job"
    /\ wpc' = [wpc EXCEPT ![w] = "lock"]
    /\ completed' = completed \cup {message[w].job}
    /\ UNCHANGED <<size, workers, queue, lockHolders, poisoned, message, poolpc,
                   idx, submitted, execLog, termsRecv, sentWhileBusy>>

\* job() panics: the worker thread unwinds and ends; a guard the thread
\* still held would be dropped by the unwinding and poison the mutex.
JobPanic(w) ==
    /\ wpc[w] = "job"
    /\ wpc' = [wpc EXCEPT ![w] = "panicked"]
    /\ poisoned' = (poisoned \/ w \in lockHolders)
    /\ lockHolders' = lockHolders \ {w}
    /\ UNCHANGED <<size, workers, queue, message, poolpc, idx, submitted,
                   execLog, completed, termsRecv, sentWhileBusy>>

\* match arm Message::Terminate: break out of the loop; the thread ends.
WorkerTerminate(w) ==
    /\ wpc[w] = "match"
    /\ message[w].type = "Terminate"
    /\ wpc' = [wpc EXCEPT ![w] = AfterTerminate]
    /\ UNCHANGED <<size, workers, queue, lockHolders, poisoned, message, poolpc,
                   idx, submitted, execLog, completed, termsRecv, sentWhileBusy>>

WorkerStep(w) ==
    \/ WorkerLock(w)
    \/ WorkerRecv(w)
    \/ WorkerUnlock(w)
    \/ WorkerNewJob(w)
    \/ JobReturn(w)
    \/ JobPanic(w)
    \/ WorkerTerminate(w)

DropStep ==
    \/ DropSend
    \/ DropSendPanic
    \/ DropSendDone
    \/ DropTake
    \/ DropJoin
    \/ DropJoinPanic
    \/ DropDone

Next ==
    \/ Execute
    \/ ExecutePanic
    \/ DropBegin
    \/ DropStep
    \/ \E w \in WorkerIds : WorkerStep(w)

Spec == Init /\ [][Next]_vars

\* Threads are scheduled by the operating system: a thread that can take a
\* step eventually takes one.  The caller is not obliged to submit or drop.
LiveSpec ==
    /\ Init
    /\ [][Next]_vars
    /\ WF_vars(DropStep)
    /\ \A w \in 0..(MaxSize - 1) : WF_vars(w \in WorkerIds /\ WorkerStep(w))

----------------------------------------------------------------------------
\* Some worker thread has panicked.
SomeWorkerPanicked == \E w \in WorkerIds : wpc[w] = "panicked"

\* The jobs that have been invoked at least once.
Invoked == {j \in DOMAIN execLog : execLog[j] # <<>>}

\* C1: every job submitted with execute is invoked exactly once, by one
\* worker: no job is invoked twice or by two workers, only submitted jobs are
\* invoked, once drop has returned every submitted job has been invoked
\* once and has returned, and no job is running after drop has returned.
C1_ExactlyOnce ==
    /\ \A j \in DOMAIN execLog : Len(execLog[j]) <= 1
    /\ \A j \in Invoked : j \in 1..submitted /\ execLog[j][1] \in WorkerIds
    /\ completed \subseteq Invoked
    /\ poolpc = "done" =>
          /\ \A j \in 1..submitted : Len(execLog[j]) = 1 /\ j \in completed
          /\ \A w \in WorkerIds : wpc[w] # "job"
          /\ \A i \in 1..Len(queue) : queue[i].type # "NewJob"

\* Drop has returned after two workers each ran one of the submitted jobs.
C1_Witness ==
    /\ poolpc = "done"
    /\ submitted >= 2
    /\ \E j, k \in Invoked : execLog[j][1] # execLog[k][1]

\* C2: once drop has returned, every worker's handle has been taken and
\* every worker thread has ended.
C2_TeardownJoinsAll ==
    poolpc = "done" =>
        \A i \in 1..Len(workers) :
            /\ workers[i].thread = "None"
            /\ wpc[workers[i].id] \in {"exited", "panicked"}

\* Drop has returned for a pool of two workers that ran a job.
C2_Witness ==
    /\ poolpc = "done"
    /\ Len(workers) >= 2
    /\ Invoked # {}

\* C3: new(0) panics: no pool with zero workers is ever returned.
C3_NewZeroPanics == ~(size = 0 /\ poolpc = "alive" /\ workers = <<>>)

\* C4: once drop has started, unless a job fails, drop eventually returns
\* with every worker having received exactly one Terminate and left its loop.
C4_TeardownTerminates ==
    (poolpc = "sending") ~>
        \/ SomeWorkerPanicked
        \/ /\ poolpc = "done"
           /\ \A w \in WorkerIds : wpc[w] = "exited" /\ termsRecv[w] = 1

\* Drop has returned for two workers that ran jobs, none of which failed.
C4_Witness ==
    /\ poolpc = "done"
    /\ Len(workers) >= 2
    /\ Cardinality(Invoked) >= 2
    /\ \A w \in WorkerIds : wpc[w] = "exited" /\ termsRecv[w] = 1

\* C5: when a join fails, drop reports it only after every remaining worker
\* has been joined as well.
C5_JoinFailureJoinsRest ==
    poolpc = "joinpanic" =>
        \A i \in 1..Len(workers) :
            /\ workers[i].thread = "None"
            /\ wpc[workers[i].id] \in {"exited", "panicked"}

\* C6: with one worker, jobs are invoked in submission order and each job
\* has returned before the next one is invoked.
C6_SingleWorkerFifo ==
    Len(workers) = 1 =>
        \A b \in Invoked : \A a \in 1..(b - 1) : a \in completed

\* A single worker has invoked three jobs, the last of which was queued
\* behind another one.
C6_Witness ==
    /\ Len(workers) = 1
    /\ Cardinality(Invoked) >= 3
    /\ 2 \in completed

\* C7: for size >= 1, until the first job is submitted the pool holds size
\* workers with ids 0..size-1, each with its handle and a running thread
\* waiting for a message, and the channel is empty.
C7_NewPool ==
    (size >= 1 /\ poolpc = "alive" /\ submitted = 0) =>
        /\ Len(workers) = size
        /\ \A i \in 1..Len(workers) :
              workers[i].id = i - 1 /\ workers[i].thread = "Some"
        /\ \A i \in 1..Len(workers) : wpc[i - 1] \in {"lock", "recv"}
        /\ queue = <<>>

\* A fresh pool of two workers, one in recv and one waiting for the lock.
C7_Witness ==
    /\ size = 2
    /\ poolpc = "alive"
    /\ submitted = 0
    /\ \E w \in WorkerIds : wpc[w] = "recv"

\* C8: while the pool is alive and a worker thread runs, execute can take
\* its step, whatever the workers are doing and whatever is queued.
C8_ExecuteNeverBlocks ==
    (poolpc = "alive" /\ submitted < MaxJobs
        /\ \E w \in WorkerIds : wpc[w] \notin {"exited", "panicked"})
    => ENABLED Execute

\* An execute returned while both workers were running a job.
C8_Witness ==
    /\ sentWhileBusy
    /\ Len(workers) = 2
    /\ queue # <<>>

\* C9: a call of execute panics and enqueues nothing exactly when no worker
\* thread is left; otherwise it appends the job to the channel.
C9_ExecuteFailsIffNoWorker ==
    [][(poolpc = "alive" /\ (submitted' # submitted \/ poolpc' = "unwinding"))
        => IF \E w \in WorkerIds : wpc[w] \notin {"exited", "panicked"}
           THEN /\ queue' = Append(queue, NewJob(submitted + 1))
                /\ poolpc' = "alive"
           ELSE /\ queue' = queue
                /\ submitted' = submitted
                /\ poolpc' = "unwinding"]_vars

\* execute panicked on a pool whose two workers had both panicked.
C9_Witness ==
    /\ poolpc = "unwinding"
    /\ Len(workers) = 2
    /\ submitted >= 2

\* C10: a worker holds the receiver's lock only while it waits for and
\* takes one message, never while it acts on the message.
C10_LockOnlyForDequeue ==
    \A w \in WorkerIds :
        /\ w \in lockHolders => wpc[w] \in {"recv", "unlock"}
        /\ wpc[w] \in {"match", "job", "exited", "panicked"}
              => w \notin lockHolders

\* One worker runs a job while the other holds the lock.
C10_Witness ==
    \E w, v \in WorkerIds :
        wpc[w] = "job" /\ v \in lockHolders /\ wpc[v] = "unlock"

\* C11: at most one worker holds the receiver's lock, and a worker that is
\* waiting for or taking a message holds it: every other worker that wants a
\* message is still waiting for the lock.
C11_MutualExclusion ==
    /\ Cardinality(lockHolders) <= 1
    /\ \A w \in WorkerIds : wpc[w] \in {"recv", "unlock"} => w \in lockHolders
    /\ Cardinality({w \in WorkerIds : wpc[w] \in {"recv", "unlock"}}) <= 1

\* One worker has just taken a message under the lock while another one
\* waits for the lock with a message queued.
C11_Witness ==
    \E w, v \in WorkerIds :
        /\ wpc[w] = "unlock" /\ w \in lockHolders
        /\ wpc[v] = "lock"
        /\ queue # <<>>

\* C12: a worker running a job never keeps another worker from the
\* channel: a worker waiting for a lock held by nobody else can take it, a
\* worker holding the lock can take the next queued message, and two
\* workers running jobs at the same time run different jobs.
C12_NotSerialized ==
    \A w \in WorkerIds : wpc[w] = "job" =>
        \A v \in WorkerIds \ {w} :
            /\ (wpc[v] = "lock" /\ lockHolders \subseteq {w} /\ ~poisoned)
                  => ENABLED WorkerLock(v)
            /\ (wpc[v] = "recv" /\ queue # <<>>) => ENABLED WorkerRecv(v)
            /\ wpc[v] = "job" => message[v].job # message[w].job

\* Two workers run two different jobs at the same time.
C12_Witness ==
    \E w, v \in WorkerIds :
        /\ w # v
        /\ wpc[w] = "job" /\ wpc[v] = "job"
        /\ message[w].job # message[v].job

\* The Terminate messages that are in the channel, and those sent so far:
\* the ones in the channel and the ones the workers received.
RECURSIVE SumRecv(_)
SumRecv(S) ==
    IF S = {} THEN 0
    ELSE LET w == CHOOSE x \in S : TRUE IN termsRecv[w] + SumRecv(S \ {w})

TermsQueued == Cardinality({i \in 1..Len(queue) : queue[i].type = "Terminate"})

TermsSent == TermsQueued + SumRecv(WorkerIds)

\* C13: drop sends exactly one Terminate per worker: none before drop
\* starts, idx of them during the first loop, N once that loop has ended
\* and never more; no Terminate is received twice, a worker receives at
\* most one, and a worker that received one holds it as its last message and
\* takes no further one.
C13_ExactlyNTerminates ==
    /\ poolpc \in {"alive", "unwinding"} => TermsSent = 0
    /\ poolpc \in {"sending", "sendpanic"} =>
          TermsSent = idx /\ idx <= Len(workers)
    /\ poolpc \in {"joining", "joinwait", "joinpanic", "done"} =>
          TermsSent = Len(workers)
    /\ \A w \in WorkerIds :
          /\ termsRecv[w] <= 1
          /\ termsRecv[w] = 1 =>
                /\ message[w].type = "Terminate"
                /\ wpc[w] \in {"unlock", "match", "exited"}

\* Both workers of a pool received one Terminate each and left their loops.
C13_Witness ==
    /\ Len(workers) = 2
    /\ TermsSent = 2
    /\ TermsQueued = 0
    /\ \A w \in WorkerIds : termsRecv[w] = 1 /\ wpc[w] = "exited"

\* C14: the Terminates are queued behind every job: once a worker has
\* received a Terminate no job is left in the channel, no job in the channel
\* is behind a Terminate, and once drop has returned every submitted job has
\* returned and the channel holds no job.
C14_ShutdownDrains ==
    /\ (\E w \in WorkerIds : termsRecv[w] >= 1) =>
          \A i \in 1..Len(queue) : queue[i].type # "NewJob"
    /\ \A i, k \in 1..Len(queue) :
          (queue[i].type = "Terminate" /\ queue[k].type = "NewJob") => k < i
    /\ poolpc = "done" =>
          /\ completed = 1..submitted
          /\ \A i \in 1..Len(queue) : queue[i].type # "NewJob"

\* Drop has returned for a pool that had jobs queued in front of its
\* Terminates: all three submitted jobs have returned.
C14_Witness ==
    /\ poolpc = "done"
    /\ Len(workers) >= 1
    /\ submitted = 3
    /\ completed = {1, 2, 3}

Joined(i) ==
    /\ workers[i].thread = "None"
    /\ poolpc = "joinwait" => JoinIndex(idx) # i

\* Position of the i-th worker in Running (0), thread ended (1), Joined (2).
Rank(i) ==
    IF Joined(i) THEN 2
    ELSE IF wpc[workers[i].id] \in {"exited", "panicked"} THEN 1 ELSE 0

\* C16: no handle is taken before the first loop of drop has sent all N
\* Terminates, and the handles are taken and joined in index order: when
\* worker i's handle has been taken, every worker before it has been taken
\* and its thread has ended, whatever the workers after it are doing.
C16_TeardownOrder ==
    \A i \in 1..Len(workers) : workers[i].thread = "None" =>
        /\ poolpc \in {"joining", "joinwait", "joinpanic", "done"}
        /\ TermsSent = Len(workers)
        /\ \A k \in 1..(i - 1) :
              /\ workers[k].thread = "None"
              /\ wpc[workers[k].id] \in {"exited", "panicked"}

\* Drop waits in the join of worker 0, which is still running, while
\* worker 1 has already received a Terminate and left its loop.
C16_Witness ==
    /\ Len(workers) = 2
    /\ poolpc = "joinwait"
    /\ idx = 0
    /\ wpc[workers[1].id] \notin {"exited", "panicked"}
    /\ wpc[workers[2].id] = "exited"
    /\ workers[2].thread = "Some"

\* C17: every worker only moves forward through Running, thread ended and
\* Joined, one stage at a time; its handle is present until drop takes it in
\* the second loop, is taken once and never comes back; a Joined worker's
\* thread has ended, and when drop has returned every worker is Joined.
C17_WorkerLifecycle ==
    [][\A i \in 1..Len(workers) :
          /\ Rank(i)' >= Rank(i)
          /\ Rank(i)' <= Rank(i) + 1
          /\ workers[i].thread = "None" => workers'[i].thread = "None"
          /\ (workers[i].thread = "Some" /\ workers'[i].thread = "None")
                => (poolpc = "joining" /\ poolpc' = "joinwait" /\ idx = i - 1)
          /\ poolpc' \in {"alive", "unwinding", "sending", "sendpanic"}
                => workers'[i].thread = "Some"
          /\ Joined(i)' => wpc'[workers'[i].id] \in {"exited", "panicked"}
          /\ poolpc' = "done" => Joined(i)'
          /\ workers'[i].id = workers[i].id
      ]_vars

\* Worker 0 has left its loop on a Terminate and has been joined while
\* worker 1 is still running.
C17_Witness ==
    /\ Len(workers) = 2
    /\ Joined(1)
    /\ wpc[workers[1].id] = "exited"
    /\ Rank(2) = 0

\* C18: when drop is about to send a Terminate and no worker thread is left,
\* its next step is the panic of that send: nothing is enqueued, no handle
\* is taken, and after the panic drop sends nothing more and joins nobody.
C18_SendFailureFatal ==
    [][/\ (poolpc = "sending" /\ idx < Len(workers)
             /\ \A w \in WorkerIds : wpc[w] \in {"exited", "panicked"})
          => (poolpc' = "sendpanic" /\ queue' = queue /\ workers' = workers)
       /\ poolpc = "sendpanic"
          => (poolpc' = "sendpanic" /\ queue' = queue /\ workers' = workers)
       /\ poolpc' = "sendpanic"
          => /\ \A i \in 1..Len(workers) : workers'[i].thread = "Some"
             /\ \A w \in WorkerIds : wpc'[w] \in {"exited", "panicked"}
      ]_vars

\* Drop sent one Terminate to a pool of two workers, the last running
\* worker then ended, and the second send panicked.
C18_Witness ==
    /\ poolpc = "sendpanic"
    /\ Len(workers) = 2
    /\ idx = 1

\* C19: if no job has failed, no Terminate send of drop fails: while drop
\* is in its first loop at most idx workers have left their loops, so before
\* each of the N sends some worker thread still runs, and a send of drop
\* panics only after a worker has panicked.
C19_BroadcastSucceeds ==
    /\ (poolpc = "sending" /\ ~SomeWorkerPanicked) =>
          /\ Cardinality({w \in WorkerIds : wpc[w] = "exited"}) <= idx
          /\ idx < Len(workers) =>
                \E w \in WorkerIds : wpc[w] \notin {"exited", "panicked"}
    /\ poolpc = "sendpanic" => SomeWorkerPanicked

\* Drop is about to send its second Terminate; one of the two workers has
\* already left its loop on the first one and no job has failed.
C19_Witness ==
    /\ poolpc = "sending"
    /\ Len(workers) = 2
    /\ idx = 1
    /\ ~SomeWorkerPanicked
    /\ \E w \in WorkerIds : wpc[w] = "exited"

====
